---- MODULE Spec2Model ----
(***************************************************************************)
(* Model of the Unitree Go1 demo: the LocomotionController gait state      *)
(* machine (examples/locomotionController.js), the coordinate accessors    *)
(* getPosition / getQuaternion / toMujocoPos and the scene builder         *)
(* loadSceneFromURL (examples/mujocoUtils.js), and init() and render() of  *)
(* MuJoCoDemo (examples/locomotionController.js).                          *)
(*                                                                         *)
(* Numbers.  JavaScript doubles are modelled by exact fixed-point          *)
(* integers, one unit per kind of quantity:                                *)
(*   time, dt           milliseconds               (TimeScale  = 1000)     *)
(*   phase, leg phase   1/600 of a cycle           (PhaseScale = 600)      *)
(*   ctrl, step offsets 1e-5 rad                   (ValScale   = 100000)   *)
(*   speed              1/100                      (SpeedScale = 100)      *)
(*   setDirection args  1/100                      (InScale    = 100)      *)
(*   direction, used    1/1000                     (DirScale   = 1000)     *)
(*   sin                1/10000                    (SinScale   = 10000)    *)
(* A product of two quantities is rounded to the nearest unit (RoundDiv),  *)
(* as a double product is rounded to the nearest double.                   *)
(***************************************************************************)
EXTENDS Integers, Sequences, FiniteSets, TLC

VARIABLES
    time,        \* LocomotionController.time        (ms)
    phase,       \* LocomotionController.phase       (1/600)
    isMoving,    \* LocomotionController.isMoving
    direction,   \* LocomotionController.direction: the vector (x, y)/sqrt(d2)
    speed,       \* LocomotionController.speed       (1/100)
    ctrl,        \* simulation.ctrl, the actuator command buffer (1e-5)
    legPhases,   \* the legPhases array of the last applyTrottingGait call
    lastCall,    \* the controller method that ran last, with its arguments
    buffer,      \* the typed array handed to getPosition / getQuaternion
    target,      \* the THREE.Vector3 / THREE.Quaternion the accessor wrote
    coordCall,   \* the accessor that ran last, with its arguments
    mjModel,     \* parent.model: the arrays of the model the builder reads
    mesh_vert,   \* model.mesh_vert, one vertex per mesh, swapped in place
    simulation,  \* parent.simulation: the number of the load that made it
    loads,       \* how many times loadSceneFromURL was entered
    scene,       \* the children of parent.scene named by the builder, in order
    nodes,       \* the three.js nodes alive, by identity
    bodies,      \* the bodies map of the builder, then parent.bodies
    meshes,      \* the meshes cache of the builder
    material,    \* the material slot of the builder
    lights,      \* the lights array of the builder, then parent.lights
    pcLoad,      \* where loadSceneFromURL is
    idx,         \* the index of the builder's running loop
    materialLog, \* per processed geometry: was a material allocated, which is used
    meshSynth,   \* per mesh id: how many times its buffers were synthesized
    mujocoRoot,  \* parent.mujocoRoot
    retval,      \* what loadSceneFromURL returned
    hasController, \* this.locomotionController is not null
    params,      \* this.params: paused, enableLocomotion, locomotionDirX/Y/Speed
    dragging,    \* dragStateManager.physicsObject is a body with a bodyID
    mujoco_time, \* this.mujoco_time (ms)
    timeMS,      \* the argument of the running or last render call (ms)
    pcFrame,     \* where init() and render() are
    simSteps,    \* how many times simulation.step() ran
    posedAt,     \* the value of simSteps the body nodes show, -1 before any copy
    log,         \* the calls of the running or last frame, in order
    wraps,       \* the wrap points of the simulation's tendons
    cylinders,   \* mujocoRoot.cylinders: count and the instances written last
    spheres,     \* mujocoRoot.spheres: count and the instances written last
    timestep,    \* model.getOptions().timestep (ms)
    ctlSim       \* locomotionController.simulation: the number of its load

ctlVars   == <<time, phase, isMoving, direction, speed, ctrl, legPhases, lastCall>>
coordVars == <<buffer, target, coordCall>>
buildVars == <<mjModel, mesh_vert, simulation, loads, scene, nodes, bodies, meshes,
               material, lights, pcLoad, idx, materialLog, meshSynth, mujocoRoot,
               retval>>
frameVars == <<hasController, params, dragging, mujoco_time, timeMS, pcFrame,
               simSteps, posedAt, log, wraps, cylinders, spheres, timestep, ctlSim>>
vars      == <<time, phase, isMoving, direction, speed, ctrl, legPhases, lastCall,
               buffer, target, coordCall,
               mjModel, mesh_vert, simulation, loads, scene, nodes, bodies, meshes,
               material, lights, pcLoad, idx, materialLog, meshSynth, mujocoRoot,
               retval,
               hasController, params, dragging, mujoco_time, timeMS, pcFrame,
               simSteps, posedAt, log, wraps, cylinders, spheres, timestep, ctlSim>>

----------------------------------------------------------------------------
(* Units *)

TimeScale  == 1000
PhaseScale == 600
ValScale   == 100000
SpeedScale == 100
InScale    == 100
DirScale   == 1000
SinScale   == 10000

(* Bounds of the model *)

\* update(dt) is not taken past this elapsed time (ms)
MaxTime == 800
\* length of the ctrl buffer: the 12 motors and one entry the controller does not own
CtrlLen == 13

\* the timesteps handed to update(dt) (ms)
DtSet == {100, 200}
\* the (x, y) pairs handed to setDirection (1/100)
DirInputs == { <<0, 0>>, <<10, 10>>, <<11, 0>>, <<0, -11>>, <<100, 0>>,
               <<-100, 0>>, <<0, 100>>, <<30, 40>>, <<-60, 60>> }
\* the values handed to setSpeed (1/100)
SpeedInputs == {-50, 0, 50, 100, 150}

----------------------------------------------------------------------------
(* Arithmetic *)

Abs(a) == IF a < 0 THEN -a ELSE a

Max(a, b) == IF a >= b THEN a ELSE b

Min(a, b) == IF a <= b THEN a ELSE b

\* a / b rounded to the nearest integer (b > 0)
RoundDiv(a, b) == (2 * a + b) \div (2 * b)

RECURSIVE SqrtSearch(_, _, _)
SqrtSearch(n, lo, hi) ==
    IF lo >= hi THEN lo
    ELSE LET mid == (lo + hi + 1) \div 2
         IN  IF mid * mid <= n THEN SqrtSearch(n, mid, hi)
                               ELSE SqrtSearch(n, lo, mid - 1)

\* floor of the square root of n, 0 <= n < 2^30
ISqrt(n) == SqrtSearch(n, 0, 32767)

\* Math.sin(q * Math.PI) for a leg phase q = lp/600 on the 1/12 grid
SinTable == <<0, 2588, 5000, 7071, 8660, 9659, 10000>>

SinPi(lp) ==
    LET k == (lp \div 50) % 24
        h == k % 12
        m == IF h <= 6 THEN h ELSE 12 - h
    IN  IF k < 12 THEN SinTable[m + 1] ELSE -SinTable[m + 1]

----------------------------------------------------------------------------
(* Constants of locomotionController.js *)

NUM_LEGS       == 4
JOINTS_PER_LEG == 3
NUM_MOTORS     == NUM_LEGS * JOINTS_PER_LEG

FR == 0
FL == 1
RR == 2
RL == 3

HIP_JOINT   == 0
THIGH_JOINT == 1
CALF_JOINT  == 2

\* DEFAULT_POSE[i] of the source is DEFAULT_POSE[i + 1] here (1e-5)
DEFAULT_POSE == << 0, 90000, -180000,
                   0, 90000, -180000,
                   0, 90000, -180000,
                   0, 90000, -180000 >>

\* 0.6 s
TROT_CYCLE_DURATION == 600
\* 0.1
TROT_STEP_HEIGHT == 10000
\* 0.15
TROT_STEP_LENGTH == 15000
\* TROT_PAIRS[p][k] of the source is TROT_PAIRS[p + 1][k + 1] here
TROT_PAIRS == << <<FL, RR>>, <<FR, RL>> >>

\* the 0.1 of setDirection (1/100)
MoveThreshold == 10
\* returnSpeed = 0.5 of returnToStandingPose, in tenths
returnSpeed == 5
\* the 0.01 of returnToStandingPose (1e-5)
ReturnTolerance == 1000

Motors == 0 .. (NUM_MOTORS - 1)
Legs   == 0 .. (NUM_LEGS - 1)

----------------------------------------------------------------------------
(* LocomotionController: the methods as operators *)

\* reset() with a loop that stops one motor early
ResetCtrl_OffByOne(c) ==
    [i \in DOMAIN c |-> IF i < NUM_MOTORS - 1 THEN DEFAULT_POSE[i + 1] ELSE c[i]]

\* reset(): writes DEFAULT_POSE into ctrl[0 .. NUM_MOTORS-1]
ResetCtrl(c) ==
    [i \in DOMAIN c |-> IF i < NUM_MOTORS THEN DEFAULT_POSE[i + 1] ELSE c[i]]

\* setDirection without the normalize() call
Normalize_Skipped(x, y) ==
    [x |-> x, y |-> y, d2 |-> InScale * InScale]

\* direction.set(x, y, 0).normalize(): THREE divides by (length() || 1).
\* The result is the vector (x, y)/sqrt(d2); a zero length divides by 1.
Normalize(x, y) ==
    LET len2 == x * x + y * y
    IN  [x |-> x, y |-> y, d2 |-> IF len2 = 0 THEN InScale * InScale ELSE len2]

\* the moving flag with >= for >
MovingFlag_Inclusive(x, y) == Abs(x) >= MoveThreshold \/ Abs(y) >= MoveThreshold

\* the moving flag of setDirection(x, y)
MovingFlag(x, y) == Abs(x) > MoveThreshold \/ Abs(y) > MoveThreshold

\* setSpeed without the lower clamp
ClampSpeed_NoLower(s) == Min(SpeedScale, s)

\* Math.max(0, Math.min(1, speed))
ClampSpeed(s) == Max(0, Min(SpeedScale, s))

\* a component c/sqrt(d2) of the stored direction as a number (1/1000)
DirValue(c, d2) == RoundDiv(c * 100 * DirScale, ISqrt(d2 * 10000))

\* returnToStandingPose without the 0.01 dead band
ReturnToStandingPose_NoDeadBand(c, dt) ==
    [i \in DOMAIN c |->
        IF i < NUM_MOTORS
        THEN LET diff == DEFAULT_POSE[i + 1] - c[i]
             IN  c[i] + RoundDiv(diff * returnSpeed * dt, 10 * TimeScale)
        ELSE c[i]]

\* returnToStandingPose with diff = current - target
ReturnToStandingPose_WrongSign(c, dt) ==
    [i \in DOMAIN c |->
        IF i < NUM_MOTORS
        THEN LET diff == c[i] - DEFAULT_POSE[i + 1]
             IN  IF Abs(diff) > ReturnTolerance
                 THEN c[i] + RoundDiv(diff * returnSpeed * dt, 10 * TimeScale)
                 ELSE c[i]
        ELSE c[i]]

\* returnToStandingPose(dt)
ReturnToStandingPose(c, dt) ==
    [i \in DOMAIN c |->
        IF i < NUM_MOTORS
        THEN LET diff == DEFAULT_POSE[i + 1] - c[i]
             IN  IF Abs(diff) > ReturnTolerance
                 THEN c[i] + RoundDiv(diff * returnSpeed * dt, 10 * TimeScale)
                 ELSE c[i]
        ELSE c[i]]

\* the phase without the modulo
CyclePhase_NoWrap(t) == (t * PhaseScale) \div TROT_CYCLE_DURATION

\* this.phase = (this.time % TROT_CYCLE_DURATION) / TROT_CYCLE_DURATION
CyclePhase(t) == ((t % TROT_CYCLE_DURATION) * PhaseScale) \div TROT_CYCLE_DURATION

\* applyTrottingGait whose second half cycle swings the same pair again
LegPhases_NoSwap(ph) ==
    [leg \in Legs |->
        IF 2 * ph < PhaseScale
        THEN IF leg = TROT_PAIRS[1][1] \/ leg = TROT_PAIRS[1][2] THEN 0 ELSE ph * 2
        ELSE IF leg = TROT_PAIRS[1][1] \/ leg = TROT_PAIRS[1][2]
             THEN 0 ELSE (ph - PhaseScale \div 2) * 2]

\* the legPhases array of applyTrottingGait (1/600)
LegPhases(ph) ==
    [leg \in Legs |->
        IF 2 * ph < PhaseScale
        THEN IF leg = TROT_PAIRS[1][1] \/ leg = TROT_PAIRS[1][2] THEN 0 ELSE ph * 2
        ELSE IF leg = TROT_PAIRS[1][1] \/ leg = TROT_PAIRS[1][2]
             THEN (ph - PhaseScale \div 2) * 2 ELSE 0]

\* calculateLegJointPositions without the mirroring of the left legs
CalculateLegJointPositions_NoMirror(leg, lp, dir, sp) ==
    LET baseIdx == leg * JOINTS_PER_LEG
        hip0    == DEFAULT_POSE[baseIdx + HIP_JOINT + 1]
        thigh0  == DEFAULT_POSE[baseIdx + THIGH_JOINT + 1]
        calf0   == DEFAULT_POSE[baseIdx + CALF_JOINT + 1]
    IN  IF lp > 0
        THEN LET heightFactor  == SinPi(lp)
                 swingProgress == lp
                 dirX == DirValue(dir.x, dir.d2)
                 dirY == DirValue(dir.y, dir.d2)
                 legDirectionY == dirY
                 legDirectionX == IF leg = RR \/ leg = RL THEN -dirX ELSE dirX
                 reach == RoundDiv(RoundDiv(sp * TROT_STEP_LENGTH, SpeedScale)
                                     * (swingProgress - PhaseScale \div 2), PhaseScale)
                 stepX == RoundDiv(reach * legDirectionX, DirScale)
                 stepY == RoundDiv(reach * legDirectionY, DirScale)
                 stepZ == RoundDiv(RoundDiv(sp * TROT_STEP_HEIGHT, SpeedScale)
                                     * heightFactor, SinScale)
             IN  << hip0   + RoundDiv(stepY * 8, 10),
                    thigh0 + RoundDiv(stepX * 5, 10) - RoundDiv(stepZ * 5, 10),
                    calf0  + RoundDiv(stepZ * 8, 10) >>
        ELSE << hip0, thigh0, calf0 >>

\* calculateLegJointPositions(leg, phase): <<hipPos, thighPos, calfPos>>
CalculateLegJointPositions(leg, lp, dir, sp) ==
    LET baseIdx == leg * JOINTS_PER_LEG
        hip0    == DEFAULT_POSE[baseIdx + HIP_JOINT + 1]
        thigh0  == DEFAULT_POSE[baseIdx + THIGH_JOINT + 1]
        calf0   == DEFAULT_POSE[baseIdx + CALF_JOINT + 1]
    IN  IF lp > 0
        THEN LET heightFactor  == SinPi(lp)
                 swingProgress == lp
                 dirX == DirValue(dir.x, dir.d2)
                 dirY == DirValue(dir.y, dir.d2)
                 legDirectionY == IF leg = FL \/ leg = RL THEN -dirY ELSE dirY
                 legDirectionX == IF leg = RR \/ leg = RL THEN -dirX ELSE dirX
                 reach == RoundDiv(RoundDiv(sp * TROT_STEP_LENGTH, SpeedScale)
                                     * (swingProgress - PhaseScale \div 2), PhaseScale)
                 stepX == RoundDiv(reach * legDirectionX, DirScale)
                 stepY == RoundDiv(reach * legDirectionY, DirScale)
                 stepZ == RoundDiv(RoundDiv(sp * TROT_STEP_HEIGHT, SpeedScale)
                                     * heightFactor, SinScale)
             IN  << hip0   + RoundDiv(stepY * 8, 10),
                    thigh0 + RoundDiv(stepX * 5, 10) - RoundDiv(stepZ * 5, 10),
                    calf0  + RoundDiv(stepZ * 8, 10) >>
        ELSE << hip0, thigh0, calf0 >>

\* applyTrottingGait that leaves the joints of a stance leg as they are
ApplyTrottingGait_StanceKept(c, ph, dir, sp) ==
    LET lps == LegPhases(ph)
    IN  [i \in DOMAIN c |->
            IF i < NUM_MOTORS /\ lps[i \div JOINTS_PER_LEG] > 0
            THEN CalculateLegJointPositions(i \div JOINTS_PER_LEG,
                     lps[i \div JOINTS_PER_LEG], dir, sp)[(i % JOINTS_PER_LEG) + 1]
            ELSE c[i]]

\* applyTrottingGait(): every leg's three joints are written
ApplyTrottingGait(c, ph, dir, sp) ==
    LET lps == LegPhases(ph)
    IN  [i \in DOMAIN c |->
            IF i < NUM_MOTORS
            THEN CalculateLegJointPositions(i \div JOINTS_PER_LEG,
                     lps[i \div JOINTS_PER_LEG], dir, sp)[(i % JOINTS_PER_LEG) + 1]
            ELSE c[i]]

----------------------------------------------------------------------------
(* LocomotionController: state machine *)

Call(op, args) == [op |-> op, args |-> args]

\* new LocomotionController(simulation) on a zeroed ctrl buffer
CtlInit ==
    /\ time = 0
    /\ phase = 0
    /\ isMoving = FALSE
    /\ direction = [x |-> InScale, y |-> 0, d2 |-> InScale * InScale]
    /\ speed = 50
    /\ ctrl = ResetCtrl([i \in 0 .. (CtrlLen - 1) |-> 0])
    /\ legPhases = [leg \in Legs |-> 0]
    /\ lastCall = Call("constructor", <<>>)

\* a reset() that also zeroes the clock and the phase
Reset_ZeroesClock ==
    /\ ctrl' = ResetCtrl(ctrl)
    /\ time' = 0
    /\ phase' = 0
    /\ lastCall' = Call("reset", <<>>)
    /\ UNCHANGED <<isMoving, direction, speed, legPhases>>

Reset ==
    /\ ctrl' = ResetCtrl(ctrl)
    /\ lastCall' = Call("reset", <<>>)
    /\ UNCHANGED <<time, phase, isMoving, direction, speed, legPhases>>

SetDirection(x, y) ==
    /\ direction' = Normalize(x, y)
    /\ isMoving' = MovingFlag(x, y)
    /\ lastCall' = Call("setDirection", <<x, y>>)
    /\ UNCHANGED <<time, phase, speed, ctrl, legPhases>>

SetSpeed(s) ==
    /\ speed' = ClampSpeed(s)
    /\ lastCall' = Call("setSpeed", <<s>>)
    /\ UNCHANGED <<time, phase, isMoving, direction, ctrl, legPhases>>

\* an update(dt) whose clock stands still while the controller is idle
Update_IdleClockHeld(dt) ==
    /\ lastCall' = Call("update", <<dt>>)
    /\ IF ~isMoving
       THEN /\ time' = time
            /\ ctrl' = ReturnToStandingPose(ctrl, dt)
            /\ UNCHANGED <<phase, legPhases>>
       ELSE /\ time' = time + dt
            /\ phase' = CyclePhase(time')
            /\ legPhases' = LegPhases(phase')
            /\ ctrl' = ApplyTrottingGait(ctrl, phase', direction, speed)
    /\ UNCHANGED <<isMoving, direction, speed>>

\* update(dt)
Update(dt) ==
    /\ time' = time + dt
    /\ lastCall' = Call("update", <<dt>>)
    /\ IF ~isMoving
       THEN /\ ctrl' = ReturnToStandingPose(ctrl, dt)
            /\ UNCHANGED <<phase, legPhases>>
       ELSE /\ phase' = CyclePhase(time')
            /\ legPhases' = LegPhases(phase')
            /\ ctrl' = ApplyTrottingGait(ctrl, phase', direction, speed)
    /\ UNCHANGED <<isMoving, direction, speed>>

----------------------------------------------------------------------------
(* Coordinate accessors of mujocoUtils.js *)

\* the values a buffer entry takes
CoordVals == {-1, 2, 3}
\* the buffer holds two quaternions or two positions (and two spare entries)
BufferLen == 8
\* the indices handed to the accessors
CoordIndices == {0, 1}

\* getPosition(buffer, index, target, swizzle): the target after target.set(...)
GetPosition(buf, index, swizzle) ==
    IF swizzle
    THEN [x |->  buf[(index * 3) + 0],
          y |->  buf[(index * 3) + 2],
          z |-> -buf[(index * 3) + 1]]
    ELSE [x |->  buf[(index * 3) + 0],
          y |->  buf[(index * 3) + 1],
          z |->  buf[(index * 3) + 2]]

\* getQuaternion with the swizzle (-x, -w, z, -y)
GetQuaternion_Reordered(buf, index, swizzle) ==
    IF swizzle
    THEN [x |-> -buf[(index * 4) + 1],
          y |-> -buf[(index * 4) + 0],
          z |->  buf[(index * 4) + 3],
          w |-> -buf[(index * 4) + 2]]
    ELSE [x |->  buf[(index * 4) + 0],
          y |->  buf[(index * 4) + 1],
          z |->  buf[(index * 4) + 2],
          w |->  buf[(index * 4) + 3]]

\* getQuaternion(buffer, index, target, swizzle): target.set(x, y, z, w)
GetQuaternion(buf, index, swizzle) ==
    IF swizzle
    THEN [x |-> -buf[(index * 4) + 1],
          y |-> -buf[(index * 4) + 3],
          z |->  buf[(index * 4) + 2],
          w |-> -buf[(index * 4) + 0]]
    ELSE [x |->  buf[(index * 4) + 0],
          y |->  buf[(index * 4) + 1],
          z |->  buf[(index * 4) + 2],
          w |->  buf[(index * 4) + 3]]

\* toMujocoPos without the sign flip
ToMujocoPos_NoFlip(t) == [x |-> t.x, y |-> t.z, z |-> t.y]

\* toMujocoPos(target): target.set(target.x, -target.z, target.y)
ToMujocoPos(t) == [x |-> t.x, y |-> -t.z, z |-> t.y]

GetPositionCall(index, swizzle) ==
    /\ target' = GetPosition(buffer, index, swizzle)
    /\ coordCall' = Call("getPosition", <<index, swizzle>>)
    /\ UNCHANGED buffer

GetQuaternionCall(index, swizzle) ==
    /\ target' = GetQuaternion(buffer, index, swizzle)
    /\ coordCall' = Call("getQuaternion", <<index, swizzle>>)
    /\ UNCHANGED buffer

\* toMujocoPos on the vector an accessor produced; args name the getPosition
\* call whose result is converted (empty when it is not a fresh getPosition result)
ToMujocoPosCall ==
    /\ DOMAIN target = {"x", "y", "z"}
    /\ coordCall.op \in {"getPosition", "toMujocoPos"}
    /\ target' = ToMujocoPos(target)
    /\ coordCall' = Call("toMujocoPos",
                         IF coordCall.op = "getPosition" THEN coordCall.args ELSE <<>>)
    /\ UNCHANGED buffer

\* the accessors are not running
CoordIdle ==
    /\ buffer = [k \in 0 .. (BufferLen - 1) |-> 0]
    /\ target = [x |-> 0, y |-> 0, z |-> 0]
    /\ coordCall = Call("none", <<>>)

\* a fresh target vector and any buffer contents
CoordInit ==
    /\ buffer \in [0 .. (BufferLen - 1) -> CoordVals]
    /\ target = [x |-> 0, y |-> 0, z |-> 0]
    /\ coordCall = Call("none", <<>>)

----------------------------------------------------------------------------
(* Scene builder: loadSceneFromURL of mujocoUtils.js *)

\* the mjtGeom values of the MuJoCo library
mjGEOM_PLANE == 0

mjGEOM_HFIELD == 1

mjGEOM_SPHERE == 2

mjGEOM_CAPSULE == 3

mjGEOM_ELLIPSOID == 4

mjGEOM_CYLINDER == 5

mjGEOM_BOX == 6

mjGEOM_MESH == 7

\* the identity of a JavaScript object: its kind, the build that made it and
\* the loop index at which that build made it
ObjId(kind, build, i) == <<kind, build, i>>

\* undefined / null
None == ObjId("none", 0, 0)

\* parent.scene
SceneId == ObjId("scene", 0, 0)

\* parent.simulation = null
NullSim == -1

NoTexture == [id |-> None, texId |-> -1, repeat |-> 0]

NoMaterial == [id |-> None, color |-> <<0, 0, 0>>, opacity |-> 0, map |-> NoTexture]

NoGeometry == [id |-> None, shape |-> "none", dims |-> <<0, 0, 0>>]

\* rgba quadruples, one unit = 1/100
White == <<100, 100, 100, 100>>

Red == <<80, 30, 30, 100>>

Glass == <<100, 100, 100, 50>>

\* model.mat_rgba and model.mat_texid of the models built: material 0 is
\* untextured, material 1 uses texture 0, material 2 uses texture 2
Materials ==
    << [rgba |-> Red,   texid |-> -1],
       [rgba |-> White, texid |-> 0],
       [rgba |-> White, texid |-> 2] >>

\* model.mesh_vert of the models built: one vertex for each of two meshes
MeshVerts == [m \in {0, 1} |-> IF m = 0 THEN <<1, 2, 3>> ELSE <<4, 5, 6>>]

\* the geometries a model is made of: geom_group, geom_bodyid, geom_type,
\* geom_size, geom_dataid, geom_matid and geom_rgba of one geometry
Geom(group, bodyid, type, size, dataid, matid, rgba) ==
    [group |-> group, bodyid |-> bodyid, type |-> type, size |-> size,
     dataid |-> dataid, matid |-> matid, rgba |-> rgba]

GeomSet ==
    { Geom(0, 0, mjGEOM_PLANE,     <<0, 0, 1>>, -1,  2, White),
      Geom(2, 1, mjGEOM_MESH,      <<1, 1, 1>>,  0, -1, Red),
      Geom(1, 2, mjGEOM_MESH,      <<1, 1, 1>>,  0,  0, White),
      Geom(0, 1, mjGEOM_MESH,      <<1, 1, 1>>,  1,  1, White),
      Geom(3, 1, mjGEOM_SPHERE,    <<2, 0, 0>>, -1, -1, Red),
      Geom(0, 1, mjGEOM_ELLIPSOID, <<1, 2, 3>>, -1,  1, Red),
      Geom(0, 0, mjGEOM_BOX,       <<1, 2, 3>>, -1, -1, White),
      Geom(4, 2, mjGEOM_CAPSULE,   <<1, 2, 0>>, -1, -1, Glass) }

MaxGeoms == 3

MaxBodies == 3

\* model.light_directional of the models built
LightSet == { <<>>, <<TRUE>>, <<FALSE, TRUE>> }

\* byte length of a names blob that holds names
NamesLen == 16

SeqUpTo(S, n) == UNION { [1 .. k -> S] : k \in 0 .. n }

\* the models load_from_xml can return: every geometry is owned by a body
Models ==
    { m \in [names : {0, NamesLen}, geoms : SeqUpTo(GeomSet, MaxGeoms),
             nbody : 1 .. MaxBodies, lights : LightSet] :
        \A k \in 1 .. Len(m.geoms) : m.geoms[k].bodyid < m.nbody }

\* the model the constructor loads before init() runs
ConstructorModel == [names |-> NamesLen, geoms |-> <<>>, nbody |-> 1, lights |-> <<>>]

\* the names check of the builder
NamesInvalid_Never(m) == FALSE

NamesInvalid(m) == m.names = 0

\* the group filter of the geometry pass
GeomVisible_Inclusive(geo) == geo.group <= 3

GeomVisible(geo) == geo.group < 3

\* the mesh cache lookup: meshID in meshes
MeshCached_Never(cache, meshID) == FALSE

MeshCached(cache, meshID) == meshID \in DOMAIN cache

\* the in-place axis swap of a mesh vertex
SwizzleVertex(v) == <<v[1], v[3], -v[2]>>

\* the geometry by type with the box extents in the order of geom_size
PrimitiveGeometry_BoxUnordered(geo, id) ==
    LET size == geo.size
        type == geo.type
    IN  IF type = mjGEOM_SPHERE
        THEN [id |-> id, shape |-> "Sphere", dims |-> <<2 * size[1], 0, 0>>]
        ELSE IF type = mjGEOM_CAPSULE
        THEN [id |-> id, shape |-> "Capsule", dims |-> <<2 * size[1], 4 * size[2], 0>>]
        ELSE IF type = mjGEOM_ELLIPSOID
        THEN [id |-> id, shape |-> "Sphere", dims |-> <<2, 0, 0>>]
        ELSE IF type = mjGEOM_CYLINDER
        THEN [id |-> id, shape |-> "Cylinder",
              dims |-> <<2 * size[1], 2 * size[1], 4 * size[2]>>]
        ELSE IF type = mjGEOM_BOX
        THEN [id |-> id, shape |-> "Box",
              dims |-> <<4 * size[1], 4 * size[2], 4 * size[3]>>]
        ELSE [id |-> id, shape |-> "Sphere", dims |-> <<size[1], 0, 0>>]

\* the primitive geometry of a type; dimensions in half units, so that
\* size * 0.5 is exact
PrimitiveGeometry(geo, id) ==
    LET size == geo.size
        type == geo.type
    IN  IF type = mjGEOM_SPHERE
        THEN [id |-> id, shape |-> "Sphere", dims |-> <<2 * size[1], 0, 0>>]
        ELSE IF type = mjGEOM_CAPSULE
        THEN [id |-> id, shape |-> "Capsule", dims |-> <<2 * size[1], 4 * size[2], 0>>]
        ELSE IF type = mjGEOM_ELLIPSOID
        THEN [id |-> id, shape |-> "Sphere", dims |-> <<2, 0, 0>>]
        ELSE IF type = mjGEOM_CYLINDER
        THEN [id |-> id, shape |-> "Cylinder",
              dims |-> <<2 * size[1], 2 * size[1], 4 * size[2]>>]
        ELSE IF type = mjGEOM_BOX
        THEN [id |-> id, shape |-> "Box",
              dims |-> <<4 * size[1], 4 * size[3], 4 * size[2]>>]
        ELSE [id |-> id, shape |-> "Sphere", dims |-> <<size[1], 0, 0>>]

\* the colour of a geometry: its own rgba, or its material's
GeomColor(geo) ==
    IF geo.matid # -1 THEN Materials[geo.matid + 1].rgba ELSE geo.rgba

\* the texture object built for a geometry: a new one for every geometry
\* whose material has a texture
GeomTexture(geo, id) ==
    IF geo.matid # -1 /\ Materials[geo.matid + 1].texid # -1
    THEN LET texId == Materials[geo.matid + 1].texid
         IN  [id |-> id, texId |-> texId, repeat |-> IF texId = 2 THEN 50 ELSE 1]
    ELSE NoTexture

\* the test that allocates a new material: the map is compared by identity
MaterialDiffers(mat, color, texture) ==
    \/ mat.color[1] # color[1]
    \/ mat.color[2] # color[2]
    \/ mat.color[3] # color[3]
    \/ mat.opacity # color[4]
    \/ mat.map.id # texture.id

\* mesh.receiveShadow
ReceiveShadow_Plane(type) == type # 0

ReceiveShadow(type) == type # 7

\* mesh.castShadow
CastShadow(g) == g # 0

\* the capacity of each tendon pool
TendonCapacity == 1023

\* a node of the three.js scene graph
Node(kind, name, parent, bodyID) ==
    [kind |-> kind, name |-> name, parent |-> parent, bodyID |-> bodyID,
     has_custom_mesh |-> FALSE, geometry |-> NoGeometry, material |-> NoMaterial,
     castShadow |-> FALSE, receiveShadow |-> FALSE, scale |-> <<1, 1, 1>>,
     quaternionSet |-> FALSE]

\* parent.model = null
NullModel == [names |-> 0, geoms |-> <<>>, nbody |-> 0, lights |-> <<>>]

\* the root node of the build that is running or ran last
RootId == ObjId("root", loads, 0)

\* the default material of a build
DefaultMaterial(build) ==
    [id |-> ObjId("material", build, -1), color |-> <<100, 100, 100>>,
     opacity |-> 100, map |-> NoTexture]

\* node id hangs, through its ancestors, from parent.scene
RECURSIVE InScene(_, _)
InScene(ns, id) ==
    IF id = SceneId THEN TRUE
    ELSE IF id \in DOMAIN ns THEN InScene(ns, ns[id].parent)
    ELSE FALSE

\* the nodes still referenced once the locals of the builder are gone
Reachable(ns) == [id \in {i \in DOMAIN ns : InScene(ns, i)} |-> ns[id]]

\* Object3D.add: a node that is not an Object3D is reported and not added
AddChild(ns, parent, child) ==
    IF child \in DOMAIN ns THEN [ns EXCEPT ![child].parent = parent] ELSE ns

\* the state before init() loads the first scene
BuildIdle ==
    /\ mjModel = ConstructorModel
    /\ mesh_vert = MeshVerts
    /\ simulation = 0
    /\ loads = 0
    /\ scene = <<>>
    /\ nodes = <<>>
    /\ bodies = <<>>
    /\ meshes = <<>>
    /\ material = NoMaterial
    /\ lights = <<>>
    /\ pcLoad = "idle"
    /\ idx = 0
    /\ materialLog = <<>>
    /\ meshSynth = [m \in DOMAIN MeshVerts |-> 0]
    /\ mujocoRoot = None
    /\ retval = "none"

\* catch (e) { return null; }: the locals are dropped, nothing is undone
Catch ==
    /\ pcLoad' = "failed"
    /\ retval' = "null"
    /\ idx' = 0
    /\ bodies' = <<>>
    /\ meshes' = <<>>
    /\ lights' = <<>>
    /\ material' = NoMaterial

\* the builder up to the geometry pass: the old simulation is freed, the
\* model is loaded (loaded = FALSE: load_from_xml throws), the names blob is
\* checked, the root is created and added to the scene
BeginLoad(m, loaded) ==
    /\ pcLoad = "idle"
    /\ loads' = loads + 1
    /\ materialLog' = <<>>
    /\ meshSynth' = [k \in DOMAIN MeshVerts |-> 0]
    /\ IF ~loaded
       THEN /\ mjModel' = NullModel
            /\ simulation' = NullSim
            /\ Catch
            /\ UNCHANGED <<mesh_vert, scene, nodes, mujocoRoot>>
       ELSE /\ mjModel' = m
            /\ mesh_vert' = MeshVerts
            /\ simulation' = loads'
            /\ IF NamesInvalid(m)
               THEN /\ Catch
                    /\ UNCHANGED <<scene, nodes, mujocoRoot>>
               ELSE /\ scene' = Append(scene, ObjId("root", loads', 0))
                    /\ nodes' = nodes @@ (ObjId("root", loads', 0) :>
                                   Node("Group", "MuJoCo Root", SceneId, -1))
                    /\ bodies' = <<>>
                    /\ meshes' = <<>>
                    /\ lights' = <<>>
                    /\ material' = DefaultMaterial(loads')
                    /\ pcLoad' = "geoms"
                    /\ idx' = 0
                    /\ retval' = "none"
                    /\ UNCHANGED mujocoRoot

\* one iteration of the geometry pass
ProcessGeom ==
    /\ pcLoad = "geoms"
    /\ idx < Len(mjModel.geoms)
    /\ idx' = idx + 1
    /\ LET g == idx
           geo == mjModel.geoms[g + 1]
       IN  IF ~GeomVisible(geo)
           THEN UNCHANGED <<nodes, bodies, meshes, material, materialLog,
                            meshSynth, mesh_vert>>
           ELSE
           LET b == geo.bodyid
               type == geo.type
               bodyNode == IF b \in DOMAIN bodies THEN bodies[b]
                           ELSE ObjId("body", loads, b)
               nodes1 == IF b \in DOMAIN bodies THEN nodes
                         ELSE nodes @@ (bodyNode :> Node("Group", "body", None, b))
               isMesh == type = mjGEOM_MESH
               meshID == geo.dataid
               synth == isMesh /\ ~MeshCached(meshes, meshID)
               geometry ==
                   IF ~isMesh THEN PrimitiveGeometry(geo, ObjId("geometry", loads, g))
                   ELSE IF synth
                   THEN [id |-> ObjId("geometry", loads, g), shape |-> "Buffer",
                         dims |-> <<meshID, 0, 0>>]
                   ELSE meshes[meshID]
               nodes2 == IF isMesh
                         THEN [nodes1 EXCEPT ![bodyNode].has_custom_mesh = TRUE]
                         ELSE nodes1
               color == GeomColor(geo)
               texture == GeomTexture(geo, ObjId("texture", loads, g))
               fresh == MaterialDiffers(material, color, texture)
               mat == IF fresh
                      THEN [id |-> ObjId("material", loads, g),
                            color |-> <<color[1], color[2], color[3]>>,
                            opacity |-> color[4], map |-> texture]
                      ELSE material
               made == IF type = 0
                       THEN [Node("Reflector", "", None, b) EXCEPT
                                !.geometry = [id |-> ObjId("plane", loads, g),
                                              shape |-> "Plane",
                                              dims |-> <<200, 200, 0>>],
                                !.material = [NoMaterial EXCEPT !.map = texture]]
                       ELSE [Node("Mesh", "", None, b) EXCEPT
                                !.geometry = geometry, !.material = mat]
               mesh == [made EXCEPT
                           !.castShadow = CastShadow(g),
                           !.receiveShadow = ReceiveShadow(type),
                           !.parent = bodyNode,
                           !.quaternionSet = (type # 0),
                           !.scale = IF type = 4
                                     THEN <<geo.size[1], geo.size[3], geo.size[2]>>
                                     ELSE <<1, 1, 1>>]
           IN  /\ bodies' = IF b \in DOMAIN bodies THEN bodies
                            ELSE bodies @@ (b :> bodyNode)
               /\ meshes' = IF synth THEN (meshID :> geometry) @@ meshes ELSE meshes
               /\ mesh_vert' = IF synth
                               THEN [mesh_vert EXCEPT
                                        ![meshID] = SwizzleVertex(mesh_vert[meshID])]
                               ELSE mesh_vert
               /\ meshSynth' = IF synth
                               THEN [meshSynth EXCEPT ![meshID] = meshSynth[meshID] + 1]
                               ELSE meshSynth
               /\ material' = mat
               /\ materialLog' = Append(materialLog,
                                   [g |-> g, fresh |-> fresh, material |-> mat.id])
               /\ nodes' = nodes2 @@ (ObjId("mesh", loads, g) :> mesh)
    /\ UNCHANGED <<mjModel, simulation, loads, scene, lights, pcLoad,
                   mujocoRoot, retval>>

\* a library call of the geometry pass or of the light pass throws
PassThrows ==
    /\ \/ pcLoad = "geoms" /\ idx < Len(mjModel.geoms)
                           /\ GeomVisible(mjModel.geoms[idx + 1])
       \/ pcLoad = "lights" /\ idx < Len(mjModel.lights)
    /\ Catch
    /\ nodes' = Reachable(nodes)
    /\ UNCHANGED <<mjModel, mesh_vert, simulation, loads, scene, materialLog,
                   meshSynth, mujocoRoot>>

\* the tendon pools, created after the last geometry
CreateTendonPools ==
    /\ pcLoad = "geoms"
    /\ idx = Len(mjModel.geoms)
    /\ nodes' = nodes @@ (ObjId("cylinders", loads, 0) :>
                            [Node("InstancedMesh", "cylinders", RootId, -1) EXCEPT
                                !.castShadow = TRUE, !.receiveShadow = TRUE])
                      @@ (ObjId("spheres", loads, 0) :>
                            [Node("InstancedMesh", "spheres", RootId, -1) EXCEPT
                                !.castShadow = TRUE, !.receiveShadow = TRUE])
    /\ pcLoad' = "lights"
    /\ idx' = 0
    /\ UNCHANGED <<mjModel, mesh_vert, simulation, loads, scene, bodies, meshes,
                   material, lights, materialLog, meshSynth, mujocoRoot, retval>>

\* one iteration of the light pass
ProcessLight ==
    /\ pcLoad = "lights"
    /\ idx < Len(mjModel.lights)
    /\ LET l == idx
           light == ObjId("light", loads, l)
           kind == IF mjModel.lights[l + 1] THEN "DirectionalLight" ELSE "SpotLight"
           owner == IF 0 \in DOMAIN bodies THEN bodies[0] ELSE RootId
       IN  /\ nodes' = nodes @@ (light :> [Node(kind, "", owner, -1) EXCEPT
                                              !.castShadow = TRUE])
           /\ lights' = Append(lights, light)
    /\ idx' = idx + 1
    /\ UNCHANGED <<mjModel, mesh_vert, simulation, loads, scene, bodies, meshes,
                   material, pcLoad, materialLog, meshSynth, mujocoRoot, retval>>

\* the end of the light pass: a model without lights gets a default light
LightsDone ==
    /\ pcLoad = "lights"
    /\ idx = Len(mjModel.lights)
    /\ nodes' = IF Len(mjModel.lights) = 0
                THEN nodes @@ (ObjId("light", loads, -1) :>
                                  Node("DirectionalLight", "", RootId, -1))
                ELSE nodes
    /\ pcLoad' = "bodies"
    /\ idx' = 0
    /\ UNCHANGED <<mjModel, mesh_vert, simulation, loads, scene, bodies, meshes,
                   material, lights, materialLog, meshSynth, mujocoRoot, retval>>

\* one iteration of the body pass
AttachBody ==
    /\ pcLoad = "bodies"
    /\ idx < mjModel.nbody
    /\ LET b == idx
       IN  IF b = 0 \/ 0 \notin DOMAIN bodies
           THEN /\ nodes' = AddChild(nodes, RootId,
                                     IF b \in DOMAIN bodies THEN bodies[b] ELSE None)
                /\ UNCHANGED bodies
           ELSE IF b \in DOMAIN bodies
           THEN /\ nodes' = AddChild(nodes, bodies[0], bodies[b])
                /\ UNCHANGED bodies
           ELSE /\ nodes' = nodes @@ (ObjId("body", loads, b) :>
                                         Node("Group", "body", bodies[0], b))
                /\ bodies' = bodies @@ (b :> ObjId("body", loads, b))
    /\ idx' = idx + 1
    /\ UNCHANGED <<mjModel, mesh_vert, simulation, loads, scene, meshes, material,
                   lights, pcLoad, materialLog, meshSynth, mujocoRoot, retval>>

\* parent.mujocoRoot = mujocoRoot; return [model, state, simulation, bodies, lights]
FinishLoad ==
    /\ pcLoad = "bodies"
    /\ idx = mjModel.nbody
    /\ mujocoRoot' = RootId
    /\ retval' = "handle"
    /\ pcLoad' = "done"
    /\ idx' = 0
    /\ meshes' = <<>>
    /\ material' = NoMaterial
    /\ UNCHANGED <<mjModel, mesh_vert, simulation, loads, scene, nodes, bodies,
                   lights, materialLog, meshSynth>>

----------------------------------------------------------------------------
(* The animation frame: init() and render() of MuJoCoDemo *)

\* model.getOptions().timestep of the scenes rendered, in ms
Timestep == 10

\* a frame that is later than this many ms restarts the simulation clock
ResyncAfter == 35

\* the time between two animation frames, in ms
FrameDtSet == {16, 33, 40}

MaxTimeMS == 70

\* the scenes init() loads in the runs that render: the last has no names
RenderModels ==
    { [names |-> NamesLen, nbody |-> 2, lights |-> <<TRUE>>,
       geoms |-> << Geom(0, 1, mjGEOM_MESH, <<1, 1, 1>>, 1, 1, White) >>],
      [names |-> 0, nbody |-> 1, lights |-> <<>>, geoms |-> <<>>] }

\* simulation.ten_wrapnum and the validity of the points of wrap_xpos: one
\* sequence per tendon, TRUE for a wrap point further than 0.01 from the origin
AllValid(n) == [k \in 1 .. n |-> TRUE]

TendonSet ==
    { <<>>,
      << <<TRUE>> >>,
      << <<TRUE, TRUE>> >>,
      << <<TRUE, FALSE, TRUE, TRUE>> >>,
      << <<FALSE, TRUE, TRUE>>, <<>>, <<TRUE, TRUE, FALSE>> >>,
      << AllValid(TendonCapacity) >>,
      << AllValid(TendonCapacity + 1) >>,
      << AllValid(TendonCapacity), <<TRUE, TRUE>> >> }

\* the tendon layouts of the runs in which the user acts
FewTendons == { <<>>, << <<TRUE, TRUE>> >> }

\* wrap_xpos of all tendons, in ten_wrapadr order
RECURSIVE Flatten(_)
Flatten(ws) == IF ws = <<>> THEN <<>> ELSE Head(ws) \o Flatten(Tail(ws))

\* ten_wrapadr[t] + ten_wrapnum[t] for the tendons t
RECURSIVE TendonEnds(_, _)
TendonEnds(ws, adr) ==
    IF ws = <<>> THEN {}
    ELSE {adr + Len(Head(ws))} \cup TendonEnds(Tail(ws), adr + Len(Head(ws)))

\* InstancedMesh.setMatrixAt: a write past the instance buffer is dropped
SetMatrixAt(written, slot, what) ==
    IF slot < TendonCapacity THEN (slot :> what) @@ written ELSE written

\* the body of the inner tendon loop for the wrap points w and w + 1
WrapPair(valid, w, st) ==
    LET validStart == valid[w + 1]
        validEnd == valid[w + 2]
        s1 == IF validStart THEN SetMatrixAt(st.sph, st.numWraps, w) ELSE st.sph
        s2 == IF validEnd THEN SetMatrixAt(s1, st.numWraps + 1, w + 1) ELSE s1
    IN  IF validStart /\ validEnd
        THEN [numWraps |-> st.numWraps + 1, sph |-> s2,
              cyl |-> SetMatrixAt(st.cyl, st.numWraps, w)]
        ELSE [numWraps |-> st.numWraps, sph |-> s2, cyl |-> st.cyl]

\* the two tendon loops over the wrap points lo .. hi - 1, run in order; the
\* last wrap point of a tendon starts no pair.  The range is halved, and the
\* first half is evaluated before the second is entered, to keep the
\* evaluation shallow: the pairs still run one after the other
RECURSIVE TendonLoop(_, _, _, _, _)
TendonLoop(valid, ends, lo, hi, st) ==
    IF hi <= lo THEN st
    ELSE IF hi = lo + 1
    THEN IF (lo + 1) \in ends THEN st ELSE WrapPair(valid, lo, st)
    ELSE LET mid == (lo + hi) \div 2
             half == TendonLoop(valid, ends, lo, mid, st)
         IN  IF half.numWraps >= 0 THEN TendonLoop(valid, ends, mid, hi, half) ELSE half

\* cylinders.count
CylinderCount(numWraps) == numWraps

\* spheres.count
SphereCount(numWraps) == IF numWraps > 0 THEN numWraps + 1 ELSE 0

\* the controller branch of the stepping loop is taken
UseController_Never(has, enabled) == FALSE

UseController(has, enabled) == has /\ enabled

\* the state of the demo after construction: init() has not run
FrameIdle ==
    /\ hasController = FALSE
    /\ params = [paused |-> FALSE, enableLocomotion |-> FALSE, locomotionDirX |-> 0,
                 locomotionDirY |-> 0, locomotionSpeed |-> 0]
    /\ dragging = FALSE
    /\ mujoco_time = 0
    /\ timeMS = 0
    /\ pcFrame = "init"
    /\ simSteps = 0
    /\ posedAt = -1
    /\ log = <<>>
    /\ cylinders = [count |-> 0, written |-> <<>>]
    /\ spheres = [count |-> 0, written |-> <<>>]
    /\ ctlSim = NullSim

\* init() after the builder returned: the scene with the robot gets a
\* controller; a null result makes the destructuring throw before that
InitDemo(go1) ==
    /\ pcFrame = "init"
    /\ pcLoad \in {"done", "failed"}
    /\ pcFrame' = "idle"
    /\ IF retval = "handle" /\ go1
       THEN /\ hasController' = TRUE
            /\ ctlSim' = simulation
            /\ params' = [params EXCEPT !.enableLocomotion = TRUE,
                             !.locomotionSpeed = 50, !.locomotionDirX = 100,
                             !.locomotionDirY = 0]
       ELSE /\ hasController' = FALSE
            /\ ctlSim' = NullSim
            /\ params' = [params EXCEPT !.enableLocomotion = FALSE]
    /\ UNCHANGED <<dragging, mujoco_time, timeMS, simSteps, posedAt, log,
                   cylinders, spheres, wraps, timestep>>

\* the GUI checkboxes and the mouse, between two frames
SetPaused(p) ==
    /\ pcFrame = "idle"
    /\ params' = [params EXCEPT !.paused = p]
    /\ UNCHANGED <<hasController, dragging, mujoco_time, timeMS, pcFrame, simSteps,
                   posedAt, log, cylinders, spheres, wraps,
                   timestep, ctlSim>>

SetEnableLocomotion(e) ==
    /\ pcFrame = "idle"
    /\ params' = [params EXCEPT !.enableLocomotion = e]
    /\ UNCHANGED <<hasController, dragging, mujoco_time, timeMS, pcFrame, simSteps,
                   posedAt, log, cylinders, spheres, wraps,
                   timestep, ctlSim>>

SetDragging(d) ==
    /\ pcFrame = "idle"
    /\ dragging' = d
    /\ UNCHANGED <<hasController, params, mujoco_time, timeMS, pcFrame, simSteps,
                   posedAt, log, cylinders, spheres, wraps,
                   timestep, ctlSim>>

\* handleKeyDown for the arrow keys and handleKeyUp
KeyCodes == {"ArrowUp", "ArrowLeft", "KeyUp"}

HandleKey(code) ==
    /\ pcFrame = "idle"
    /\ hasController /\ params.enableLocomotion
    /\ params' = [params EXCEPT
                     !.locomotionDirX = IF code = "ArrowUp" THEN 100 ELSE 0,
                     !.locomotionDirY = IF code = "ArrowLeft" THEN 100 ELSE 0]
    /\ UNCHANGED <<hasController, dragging, mujoco_time, timeMS, pcFrame, simSteps,
                   posedAt, log, cylinders, spheres, wraps,
                   timestep, ctlSim>>

\* a render(timeMS) that enters the stepping loop whether paused or not
RenderBegin_PausedSteps(dt) ==
    /\ pcFrame = "idle"
    /\ timeMS' = timeMS + dt
    /\ log' = <<>>
    /\ mujoco_time' = IF timeMS' - mujoco_time > ResyncAfter
                       THEN timeMS' ELSE mujoco_time
    /\ pcFrame' = "while"
    /\ UNCHANGED <<hasController, params, dragging, simSteps, posedAt, cylinders,
                   spheres, wraps, timestep, ctlSim>>

\* render(timeMS) up to the stepping loop or, paused, up to the pose copy
RenderBegin(dt) ==
    /\ pcFrame = "idle"
    /\ timeMS' = timeMS + dt
    /\ log' = <<>>
    /\ IF ~params.paused
       THEN /\ mujoco_time' = IF timeMS' - mujoco_time > ResyncAfter
                              THEN timeMS' ELSE mujoco_time
            /\ pcFrame' = "while"
       ELSE /\ mujoco_time' = 0
            /\ pcFrame' = "poses"
    /\ UNCHANGED <<hasController, params, dragging, simSteps, posedAt, cylinders,
                   spheres, wraps,
                   timestep, ctlSim>>

\* the test of the stepping loop and the choice of the control branch
LoopTest ==
    /\ pcFrame = "while"
    /\ IF mujoco_time < timeMS
       THEN /\ log' = Append(log, IF hasController /\ params.enableLocomotion
                                  THEN "iter+" ELSE "iter-")
            /\ pcFrame' = IF UseController(hasController, params.enableLocomotion)
                          THEN "setDirection" ELSE "perturb"
       ELSE /\ pcFrame' = "poses"
            /\ UNCHANGED log
    /\ UNCHANGED <<hasController, params, dragging, mujoco_time, timeMS, simSteps,
                   posedAt, cylinders, spheres, wraps,
                   timestep, ctlSim>>

LoopSetDirection ==
    /\ pcFrame = "setDirection"
    /\ SetDirection(params.locomotionDirX, params.locomotionDirY)
    /\ pcFrame' = "setSpeed"
    /\ UNCHANGED <<hasController, params, dragging, mujoco_time, timeMS, simSteps,
                   posedAt, log, cylinders, spheres, wraps,
                   timestep, ctlSim>>

LoopSetSpeed ==
    /\ pcFrame = "setSpeed"
    /\ SetSpeed(params.locomotionSpeed)
    /\ pcFrame' = "update"
    /\ UNCHANGED <<hasController, params, dragging, mujoco_time, timeMS, simSteps,
                   posedAt, log, cylinders, spheres, wraps,
                   timestep, ctlSim>>

LoopUpdate ==
    /\ pcFrame = "update"
    /\ Update(timestep)
    /\ log' = Append(log, "update")
    /\ pcFrame' = "perturb"
    /\ UNCHANGED <<hasController, params, dragging, mujoco_time, timeMS, simSteps,
                   posedAt, cylinders, spheres, wraps,
                   timestep, ctlSim>>

\* the perturbations: while a body is dragged its force is applied, after
\* the poses of all bodies are copied
Perturb ==
    /\ pcFrame = "perturb"
    /\ IF dragging
       THEN /\ posedAt' = simSteps
            /\ log' = Append(log, "copy")
       ELSE UNCHANGED <<posedAt, log>>
    /\ pcFrame' = "step"
    /\ UNCHANGED <<hasController, params, dragging, mujoco_time, timeMS, simSteps,
                   cylinders, spheres, wraps,
                   timestep, ctlSim>>

\* a step() after which the simulation clock stands still
Step_ClockHeld ==
    /\ pcFrame = "step"
    /\ simSteps' = simSteps + 1
    /\ log' = Append(log, "step")
    /\ pcFrame' = "while"
    /\ UNCHANGED <<hasController, params, dragging, mujoco_time, timeMS, posedAt,
                   cylinders, spheres, wraps, timestep, ctlSim>>

\* simulation.step() and the advance of the simulation clock
Step ==
    /\ pcFrame = "step"
    /\ simSteps' = simSteps + 1
    /\ log' = Append(log, "step")
    /\ mujoco_time' = mujoco_time + timestep
    /\ pcFrame' = "while"
    /\ UNCHANGED <<hasController, params, dragging, timeMS, posedAt, cylinders,
                   spheres, wraps,
                   timestep, ctlSim>>

\* the copy of the body poses after the loop, once per frame
CopyBodyPoses_Skipped ==
    /\ pcFrame = "poses"
    /\ pcFrame' = "tendons"
    /\ UNCHANGED <<hasController, params, dragging, mujoco_time, timeMS, simSteps,
                   posedAt, log, cylinders, spheres, wraps,
                   timestep, ctlSim>>

CopyBodyPoses ==
    /\ pcFrame = "poses"
    /\ posedAt' = simSteps
    /\ log' = Append(log, "copy")
    /\ pcFrame' = "tendons"
    /\ UNCHANGED <<hasController, params, dragging, mujoco_time, timeMS, simSteps,
                   cylinders, spheres, wraps,
                   timestep, ctlSim>>

\* the tendon sync that ends the frame
SyncTendons ==
    /\ pcFrame = "tendons"
    /\ IF mujocoRoot # None
       THEN LET valid == Flatten(wraps)
                done == TendonLoop(valid, TendonEnds(wraps, 0), 0, Len(valid),
                                   [numWraps |-> 0, sph |-> <<>>, cyl |-> <<>>])
            IN  /\ cylinders' = [count |-> CylinderCount(done.numWraps),
                                 written |-> done.cyl]
                /\ spheres' = [count |-> SphereCount(done.numWraps),
                               written |-> done.sph]
       ELSE UNCHANGED <<cylinders, spheres>>
    /\ pcFrame' = "idle"
    /\ UNCHANGED <<hasController, params, dragging, mujoco_time, timeMS, simSteps,
                   posedAt, log, wraps, timestep, ctlSim>>

----------------------------------------------------------------------------
(* Specifications *)

\* the controller driven by any sequence of calls
Init == CtlInit /\ CoordIdle /\ BuildIdle /\ FrameIdle /\ wraps = <<>>
        /\ timestep = Timestep

Next ==
    \/ Reset /\ UNCHANGED <<coordVars, buildVars, frameVars>>
    \/ \E d \in DirInputs : SetDirection(d[1], d[2]) /\ UNCHANGED <<coordVars, buildVars, frameVars>>
    \/ \E s \in SpeedInputs : SetSpeed(s) /\ UNCHANGED <<coordVars, buildVars, frameVars>>
    \/ \E dt \in DtSet : time + dt <= MaxTime /\ Update(dt) /\ UNCHANGED <<coordVars, buildVars, frameVars>>

Spec == Init /\ [][Next]_vars

\* the controller in the stepping loop of a run with one timestep: calls
\* other than update stop arriving at LiveInputUntil, update goes on
LiveDtSet == {200}

LiveInputUntil == 600

LiveMaxTime == 5400

LiveUpdate ==
    \E dt \in LiveDtSet : time + dt <= LiveMaxTime /\ Update(dt) /\ UNCHANGED <<coordVars, buildVars, frameVars>>

LiveNext ==
    \/ time < LiveInputUntil /\ Reset /\ UNCHANGED <<coordVars, buildVars, frameVars>>
    \/ \E d \in DirInputs :
          time < LiveInputUntil /\ SetDirection(d[1], d[2]) /\ UNCHANGED <<coordVars, buildVars, frameVars>>
    \/ \E s \in SpeedInputs :
          time < LiveInputUntil /\ SetSpeed(s) /\ UNCHANGED <<coordVars, buildVars, frameVars>>
    \/ LiveUpdate

\* an update of the idle controller
LiveIdleUpdate == ~isMoving /\ LiveUpdate

\* the animation loop keeps calling update; the idle updates are all that
\* the return to the standing pose needs
LiveSpec == Init /\ [][LiveNext]_vars /\ WF_vars(LiveIdleUpdate)

\* the accessors applied to any buffer
CoordSpecInit == CtlInit /\ CoordInit /\ BuildIdle /\ FrameIdle /\ wraps = <<>>
        /\ timestep = Timestep

CoordNext ==
    \/ \E i \in CoordIndices, sw \in BOOLEAN : GetPositionCall(i, sw) /\ UNCHANGED <<ctlVars, buildVars, frameVars>>
    \/ \E i \in CoordIndices, sw \in BOOLEAN : GetQuaternionCall(i, sw) /\ UNCHANGED <<ctlVars, buildVars, frameVars>>
    \/ ToMujocoPosCall /\ UNCHANGED <<ctlVars, buildVars, frameVars>>

CoordSpec == CoordSpecInit /\ [][CoordNext]_vars

\* the first scene load of init(), on any model
BuildNext ==
    \/ /\ pcLoad = "idle"
       /\ \E m \in Models, loaded \in BOOLEAN :
             BeginLoad(m, loaded) /\ UNCHANGED <<ctlVars, coordVars, frameVars>>
    \/ ProcessGeom /\ UNCHANGED <<ctlVars, coordVars, frameVars>>
    \/ PassThrows /\ UNCHANGED <<ctlVars, coordVars, frameVars>>
    \/ CreateTendonPools /\ UNCHANGED <<ctlVars, coordVars, frameVars>>
    \/ ProcessLight /\ UNCHANGED <<ctlVars, coordVars, frameVars>>
    \/ LightsDone /\ UNCHANGED <<ctlVars, coordVars, frameVars>>
    \/ AttachBody /\ UNCHANGED <<ctlVars, coordVars, frameVars>>
    \/ FinishLoad /\ UNCHANGED <<ctlVars, coordVars, frameVars>>

BuildSpec == Init /\ [][BuildNext]_vars

\* init() loads a scene and sets the demo up
LoadScene ==
    \/ /\ pcLoad = "idle"
       /\ \E m \in RenderModels :
             BeginLoad(m, TRUE) /\ UNCHANGED <<ctlVars, coordVars, frameVars>>
    \/ ProcessGeom /\ UNCHANGED <<ctlVars, coordVars, frameVars>>
    \/ CreateTendonPools /\ UNCHANGED <<ctlVars, coordVars, frameVars>>
    \/ ProcessLight /\ UNCHANGED <<ctlVars, coordVars, frameVars>>
    \/ LightsDone /\ UNCHANGED <<ctlVars, coordVars, frameVars>>
    \/ AttachBody /\ UNCHANGED <<ctlVars, coordVars, frameVars>>
    \/ FinishLoad /\ UNCHANGED <<ctlVars, coordVars, frameVars>>
    \/ \E go1 \in BOOLEAN : InitDemo(go1) /\ UNCHANGED <<ctlVars, coordVars, buildVars>>

\* the user acts between two frames
UserInput ==
    \/ \E p \in BOOLEAN : SetPaused(p) /\ UNCHANGED <<ctlVars, coordVars, buildVars>>
    \/ \E e \in BOOLEAN :
          SetEnableLocomotion(e) /\ UNCHANGED <<ctlVars, coordVars, buildVars>>
    \/ \E d \in BOOLEAN : SetDragging(d) /\ UNCHANGED <<ctlVars, coordVars, buildVars>>
    \/ \E code \in KeyCodes : HandleKey(code) /\ UNCHANGED <<ctlVars, coordVars, buildVars>>

\* one step of render()
Frame ==
    \/ \E dt \in FrameDtSet :
          /\ timeMS + dt <= MaxTimeMS
          /\ RenderBegin(dt) /\ UNCHANGED <<ctlVars, coordVars, buildVars>>
    \/ LoopTest /\ UNCHANGED <<ctlVars, coordVars, buildVars>>
    \/ LoopSetDirection /\ UNCHANGED <<coordVars, buildVars>>
    \/ LoopSetSpeed /\ UNCHANGED <<coordVars, buildVars>>
    \/ LoopUpdate /\ UNCHANGED <<coordVars, buildVars>>
    \/ Perturb /\ UNCHANGED <<ctlVars, coordVars, buildVars>>
    \/ Step /\ UNCHANGED <<ctlVars, coordVars, buildVars>>
    \/ CopyBodyPoses /\ UNCHANGED <<ctlVars, coordVars, buildVars>>
    \/ SyncTendons /\ UNCHANGED <<ctlVars, coordVars, buildVars>>

\* the demo from its construction on: init() loads a scene, then frames
\* are rendered and the user acts between them
RenderInit == CtlInit /\ CoordIdle /\ BuildIdle /\ FrameIdle /\ wraps \in FewTendons
        /\ timestep = Timestep

RenderNext == LoadScene \/ UserInput \/ Frame

RenderSpec == RenderInit /\ [][RenderNext]_vars

\* the demo left alone, on a simulation with any of the tendon layouts
TendonInit == CtlInit /\ CoordIdle /\ BuildIdle /\ FrameIdle /\ wraps \in TendonSet
        /\ timestep = Timestep

TendonNext == LoadScene \/ Frame

TendonSpec == TendonInit /\ [][TendonNext]_vars

\* the first scene load on a model of one geometry of any type and size
\* (geom_type 8 and 9 are types the builder has no case for)
ShapeTypes == 0 .. 9

ShapeSizes == { <<1, 2, 3>>, <<3, 1, 2>>, <<2, 2, 1>> }

ShapeModels ==
    { [names |-> NamesLen, nbody |-> 2, lights |-> <<TRUE>>,
       geoms |-> << Geom(0, 1, t, sz, IF t = mjGEOM_MESH THEN 0 ELSE -1, -1, White) >>] :
         t \in ShapeTypes, sz \in ShapeSizes }

ShapeNext ==
    \/ /\ pcLoad = "idle"
       /\ \E m \in ShapeModels :
             BeginLoad(m, TRUE) /\ UNCHANGED <<ctlVars, coordVars, frameVars>>
    \/ ProcessGeom /\ UNCHANGED <<ctlVars, coordVars, frameVars>>
    \/ CreateTendonPools /\ UNCHANGED <<ctlVars, coordVars, frameVars>>
    \/ ProcessLight /\ UNCHANGED <<ctlVars, coordVars, frameVars>>
    \/ LightsDone /\ UNCHANGED <<ctlVars, coordVars, frameVars>>
    \/ AttachBody /\ UNCHANGED <<ctlVars, coordVars, frameVars>>
    \/ FinishLoad /\ UNCHANGED <<ctlVars, coordVars, frameVars>>

ShapeSpec == Init /\ [][ShapeNext]_vars

\* the demo with its Reload button: reloads are pressed between frames, a
\* build may throw in a pass, and no frame is rendered inside a reload,
\* which has no await before the builder returns
MaxLoads == 3

\* setupGUI has run: init() got a scene from the builder
GuiReady == pcFrame # "init" /\ (loads > 1 \/ retval = "handle")

\* the first child of the scene named "MuJoCo Root", or None
FirstRoot(sc, ns) ==
    IF \E k \in 1 .. Len(sc) : ns[sc[k]].name = "MuJoCo Root"
    THEN sc[CHOOSE k \in 1 .. Len(sc) :
                /\ ns[sc[k]].name = "MuJoCo Root"
                /\ \A j \in 1 .. (k - 1) : ns[sc[j]].name # "MuJoCo Root"]
    ELSE None

\* Object3D.remove: the child leaves the children array; undefined is ignored
RemoveChild(sc, child) == SelectSeq(sc, LAMBDA c : c # child)

\* a reloadFunc that does not remove the old root
ReloadBegin_NoDetach ==
    /\ GuiReady
    /\ pcFrame = "idle"
    /\ pcLoad \in {"done", "failed"}
    /\ loads < MaxLoads
    /\ pcLoad' = "idle"
    /\ UNCHANGED <<mjModel, mesh_vert, simulation, loads, scene, nodes, bodies,
                   meshes, material, lights, idx, materialLog, meshSynth,
                   mujocoRoot, retval>>

\* reloadFunc up to the call of the builder: the old root is removed from
\* the scene, and what hung from it is referenced by the scene no more
ReloadBegin ==
    /\ GuiReady
    /\ pcFrame = "idle"
    /\ pcLoad \in {"done", "failed"}
    /\ loads < MaxLoads
    /\ LET old == FirstRoot(scene, nodes)
       IN  /\ scene' = RemoveChild(scene, old)
           /\ nodes' = Reachable(AddChild(nodes, None, old))
    /\ pcLoad' = "idle"
    /\ UNCHANGED <<mjModel, mesh_vert, simulation, loads, bodies, meshes, material,
                   lights, idx, materialLog, meshSynth, mujocoRoot, retval>>

\* the Reset Pose button
ResetPose ==
    /\ GuiReady
    /\ pcFrame = "idle"
    /\ pcLoad \in {"done", "failed"}
    /\ hasController
    /\ Reset

ReloadNext ==
    \/ LoadScene
    \/ PassThrows /\ UNCHANGED <<ctlVars, coordVars, frameVars>>
    \/ ReloadBegin /\ UNCHANGED <<ctlVars, coordVars, frameVars>>
    \/ ResetPose /\ UNCHANGED <<coordVars, buildVars, frameVars>>
    \/ pcLoad \in {"done", "failed"} /\ Frame

ReloadSpec == RenderInit /\ [][ReloadNext]_vars

\* the demo on scenes of any timestep, paused and resumed between frames
TimestepSet == {5, 10, 35, 50}

ClockInit == CtlInit /\ CoordIdle /\ BuildIdle /\ FrameIdle /\ wraps = <<>>
        /\ timestep \in TimestepSet

ClockNext ==
    \/ LoadScene
    \/ \E p \in BOOLEAN : SetPaused(p) /\ UNCHANGED <<ctlVars, coordVars, buildVars>>
    \/ Frame

\* a frame that has begun runs on: the browser does not interrupt render()
InFrame == pcFrame \notin {"init", "idle"} /\ Frame

ClockSpec == ClockInit /\ [][ClockNext]_vars /\ WF_vars(InFrame)

----------------------------------------------------------------------------
(* Properties of the gait controller *)

\* the standing pose value of actuator i: 0.0, 0.9, -1.8 per leg
StandingValue(i) ==
    IF i % 3 = 0 THEN 0 ELSE IF i % 3 = 1 THEN 90000 ELSE -180000

\* a moving update has put some leg into swing
SomeLegSwung == \E leg \in Legs : legPhases[leg] > 0

\* C1: after construction and after every reset(), whatever calls came
\* before, each of ctrl[0..11] holds the standing pose value of its joint.
C1_ResetGivesStandingPose ==
    lastCall.op \in {"constructor", "reset"} =>
        \A i \in Motors : ctrl[i] = StandingValue(i)

\* a reset() that follows updates and a moving update that swung a leg
C1_Witness ==
    /\ lastCall.op = "reset"
    /\ time > 0
    /\ SomeLegSwung

\* C2 as stated: after reset(), time = 0 and phase = 0.
C2_ResetZeroesTimeAndPhase ==
    lastCall.op = "reset" => (time = 0 /\ phase = 0)

\* C2 amended: reset() writes only the actuator entries; it leaves the
\* elapsed time and the cycle phase (and the moving flag, direction and
\* speed) exactly as they were.
C2_ResetKeepsTimeAndPhase ==
    [][lastCall'.op = "reset" =>
          /\ time' = time
          /\ phase' = phase
          /\ isMoving' = isMoving
          /\ direction' = direction
          /\ speed' = speed]_vars

\* a reset() at a nonzero time and a nonzero phase
C2_Witness ==
    /\ lastCall.op = "reset"
    /\ time > 0
    /\ phase > 0

\* C3: after setDirection(x, y) the moving flag is true exactly when
\* |x| > 0.1 or |y| > 0.1, and no other call changes the flag.
C3_MovingFlagFromLastDirection ==
    /\ [](lastCall.op = "setDirection" =>
            (isMoving <=> (Abs(lastCall.args[1]) > 10 \/ Abs(lastCall.args[2]) > 10)))
    /\ [][lastCall'.op # "setDirection" => isMoving' = isMoving]_vars

\* setDirection(0.1, 0.1) after the controller was moving: idle at the threshold
C3_Witness ==
    /\ lastCall.op = "setDirection"
    /\ lastCall.args = <<10, 10>>
    /\ ~isMoving
    /\ SomeLegSwung

\* C4: the stored direction (x, y)/sqrt(d2) is the zero vector or has unit
\* length in every state, and setDirection(0, 0) stores the zero vector.
C4_DirectionUnitOrZero ==
    /\ direction.d2 > 0
    /\ \/ direction.x = 0 /\ direction.y = 0
       \/ direction.x * direction.x + direction.y * direction.y = direction.d2
    /\ (lastCall.op = "setDirection" /\ lastCall.args = <<0, 0>>) =>
           (direction.x = 0 /\ direction.y = 0)

\* setDirection(0, 0) has stored the zero vector
C4_Witness ==
    /\ lastCall.op = "setDirection"
    /\ lastCall.args = <<0, 0>>
    /\ direction.x = 0
    /\ direction.y = 0

\* C5: speed lies in [0, 1] in every state; setSpeed(s) stores 0 for
\* s < 0, 1 for s > 1 and s otherwise; no other call changes speed.
C5_SpeedClamped ==
    /\ [](speed >= 0 /\ speed <= 100)
    /\ [](lastCall.op = "setSpeed" =>
            LET s == lastCall.args[1]
            IN  speed = IF s < 0 THEN 0 ELSE IF s > 100 THEN 100 ELSE s)
    /\ [][lastCall'.op # "setSpeed" => speed' = speed]_vars

\* setSpeed(-0.5) has stored 0
C5_Witness ==
    /\ lastCall.op = "setSpeed"
    /\ lastCall.args = <<-50>>
    /\ speed = 0

\* every actuator is within 0.01 of its standing pose value
WithinTolerance == \A i \in Motors : Abs(StandingValue(i) - ctrl[i]) <= 1000

\* C6: reset() and update(dt) never change the moving flag; an idle
\* update(dt) never increases an actuator's distance from its standing pose
\* value; while the controller stays idle, repeated updates bring every
\* actuator within 0.01 of its standing pose value.
C6_IdleReturnConverges ==
    /\ [][lastCall'.op \in {"reset", "update"} => isMoving' = isMoving]_vars
    /\ [][(lastCall'.op = "update" /\ ~isMoving) =>
            \A i \in Motors :
                Abs(StandingValue(i) - ctrl'[i]) <= Abs(StandingValue(i) - ctrl[i])]_vars
    /\ (~isMoving /\ time >= LiveInputUntil) ~> WithinTolerance

\* idle updates have relaxed a swung leg's calf from its gait value to
\* within 0.01 of the standing pose, without reaching it
C6_Witness ==
    /\ lastCall.op = "update"
    /\ ~isMoving
    /\ WithinTolerance
    /\ \E leg \in Legs : /\ ctrl[3 * leg + 2] + 180000 > 0
                         /\ ctrl[3 * leg + 2] + 180000 <= 1000

\* C7: the phase lies in [0, 1) in every state; time is the sum of the dt
\* handed to update; after a moving update phase = (time mod 0.6)/0.6, so
\* the phase at t = 0.6 is the phase at t = 0.
C7_PhaseOfElapsedTime ==
    /\ [](phase >= 0 /\ phase < PhaseScale)
    /\ [][time' = IF lastCall'.op = "update" THEN time + lastCall'.args[1] ELSE time]_vars
    /\ []((lastCall.op = "update" /\ isMoving) =>
            /\ phase * 600 = (time % 600) * PhaseScale
            /\ (time \in {0, 600} => phase = 0))

\* a moving update in the second cycle: t = 0.7, phase = 1/6
C7_Witness ==
    /\ lastCall.op = "update"
    /\ isMoving
    /\ time = 700
    /\ phase * 6 = PhaseScale

\* C8: after a moving update, for phase < 0.5 the pair (FL, RR) has leg
\* phase 0 and the pair (FR, RL) has leg phase 2*phase; for phase >= 0.5
\* the pair (FR, RL) has leg phase 0 and (FL, RR) has 2*(phase - 0.5); one
\* pair is always in stance and the legs of a pair share their leg phase.
C8_DiagonalPairsAlternate ==
    (lastCall.op = "update" /\ isMoving) =>
        /\ legPhases[1] = legPhases[2]
        /\ legPhases[0] = legPhases[3]
        /\ legPhases[1] = 0 \/ legPhases[0] = 0
        /\ 2 * phase < PhaseScale =>
               (legPhases[1] = 0 /\ legPhases[0] = 2 * phase)
        /\ 2 * phase >= PhaseScale =>
               (legPhases[0] = 0 /\ legPhases[1] = 2 * phase - PhaseScale)

\* a moving update in the second half cycle with (FL, RR) in swing
C8_Witness ==
    /\ lastCall.op = "update"
    /\ isMoving
    /\ 2 * phase > PhaseScale
    /\ legPhases[1] > 0
    /\ legPhases[2] > 0

\* the stored direction as the numbers leg `leg' uses: dy negated for the
\* left legs, dx negated for the rear legs (1/1000)
LegDx(leg) ==
    IF leg \in {2, 3} THEN -DirValue(direction.x, direction.d2)
                      ELSE DirValue(direction.x, direction.d2)

LegDy(leg) ==
    IF leg \in {1, 3} THEN -DirValue(direction.y, direction.d2)
                      ELSE DirValue(direction.y, direction.d2)

\* speed * 0.15 * (q - 0.5) for the leg phase q (1e-5)
Reach(q) == RoundDiv(RoundDiv(speed * 15000, 100) * (q - 300), 600)

\* stepX, stepY, stepZ of a leg with leg phase q (1e-5)
StepX(leg, q) == RoundDiv(Reach(q) * LegDx(leg), 1000)

StepY(leg, q) == RoundDiv(Reach(q) * LegDy(leg), 1000)

StepZ(q) == RoundDiv(RoundDiv(speed * 10000, 100) * SinPi(q), 10000)

C24_IdleUpdateStep ==
    /\ [][(lastCall'.op = "update" /\ ~isMoving) =>
            /\ \A i \in Motors :
                  LET diff == StandingValue(i) - ctrl[i]
                  IN  ctrl'[i] = IF Abs(diff) <= 1000
                                 THEN ctrl[i]
                                 ELSE ctrl[i] + RoundDiv(diff * 5 * lastCall'.args[1],
                                                         10000)
            /\ \A i \in DOMAIN ctrl \ Motors : ctrl'[i] = ctrl[i]]_vars
    /\ [][(lastCall'.op = "update" /\ ~isMoving /\ WithinTolerance) =>
            ctrl' = ctrl]_vars

\* an idle update that left a hip at 0.01 from its standing pose value
\* where it was and moved a thigh that is further off
C24_Witness ==
    /\ lastCall.op = "update"
    /\ ~isMoving
    /\ \E leg \in Legs :
          /\ Abs(ctrl[3 * leg]) = 1000
          /\ Abs(90000 - ctrl[3 * leg + 1]) > 1000

\* previous contents of the actuator buffer other than the ones at hand
OtherBuffers ==
    { [i \in DOMAIN ctrl |-> 7], [i \in DOMAIN ctrl |-> ctrl[i] + 1] }

\* C25: a moving update(dt) leaves every entry beyond ctrl[0..11] as it is,
\* and ctrl[0..11] after it are the values the gait gives for the elapsed
\* time, the stored direction and the speed on any previous contents of
\* the buffer.
C25_MovingUpdateOverwrites ==
    [][(lastCall'.op = "update" /\ isMoving) =>
            /\ \A i \in DOMAIN ctrl \ Motors : ctrl'[i] = ctrl[i]
            /\ \A other \in OtherBuffers :
                  LET written == ApplyTrottingGait(other, CyclePhase(time'),
                                                   direction, speed)
                  IN  \A i \in Motors : ctrl'[i] = written[i]]_vars

\* a moving update in the second cycle: the front left leg, swung in the
\* first cycle, is in stance and holds its standing pose again
C25_Witness ==
    /\ lastCall.op = "update"
    /\ isMoving
    /\ time = 700
    /\ legPhases[0] > 0
    /\ legPhases[1] = 0
    /\ ctrl[4] = 90000
    /\ ctrl[1] # 90000

\* C30: an idle update(dt) advances the elapsed time by dt and leaves the
\* phase as it is; no call decreases the elapsed time; a moving update
\* sets the phase to that of the whole elapsed time, idle time included.
C30_IdleTimeCounts ==
    /\ [][(lastCall'.op = "update" /\ ~isMoving) =>
            (time' = time + lastCall'.args[1] /\ phase' = phase)]_vars
    /\ [][time' >= time]_vars
    /\ [][(lastCall'.op = "update" /\ isMoving) =>
            phase' * 600 = ((time + lastCall'.args[1]) % 600) * PhaseScale]_vars

\* an idle update after which the held phase is not the phase of the
\* elapsed time
C30_Witness ==
    /\ lastCall.op = "update"
    /\ ~isMoving
    /\ time > 0
    /\ phase > 0
    /\ phase * 600 # (time % 600) * PhaseScale

----------------------------------------------------------------------------
(* Properties of the coordinate accessors *)

\* C9: getPosition with swizzle yields (x, z, -y), and toMujocoPos applied
\* to that result gives back the engine position (x, y, z) of the buffer.
C9_PositionRoundTrip ==
    /\ (coordCall.op = "getPosition" /\ coordCall.args[2]) =>
           LET i == coordCall.args[1]
           IN  target = [x |-> buffer[3 * i], y |-> buffer[3 * i + 2],
                         z |-> -buffer[3 * i + 1]]
    /\ (coordCall.op = "toMujocoPos" /\ Len(coordCall.args) = 2 /\ coordCall.args[2]) =>
           LET i == coordCall.args[1]
           IN  target = [x |-> buffer[3 * i], y |-> buffer[3 * i + 1],
                         z |-> buffer[3 * i + 2]]

\* a round trip of a position with three different components
C9_Witness ==
    /\ coordCall.op = "toMujocoPos"
    /\ coordCall.args = <<1, TRUE>>
    /\ buffer[3] = -1
    /\ buffer[4] = 2
    /\ buffer[5] = 3

\* C10 as stated: under swizzle (w, x, y, z) becomes (-x, -w, z, -y).
C10_QuaternionAsStated ==
    (coordCall.op = "getQuaternion" /\ coordCall.args[2]) =>
        LET i == coordCall.args[1]
            qw == buffer[4 * i]
            qx == buffer[4 * i + 1]
            qy == buffer[4 * i + 2]
            qz == buffer[4 * i + 3]
        IN  target = [x |-> -qx, y |-> -qw, z |-> qz, w |-> -qy]

\* C10 amended: under swizzle the engine quaternion (w, x, y, z) becomes
\* the render quaternion (x, y, z, w) = (-x, -z, y, -w); without swizzle
\* the four buffer entries are copied in order.
C10_QuaternionSwizzle ==
    coordCall.op = "getQuaternion" =>
        LET i == coordCall.args[1]
            qw == buffer[4 * i]
            qx == buffer[4 * i + 1]
            qy == buffer[4 * i + 2]
            qz == buffer[4 * i + 3]
        IN  IF coordCall.args[2]
            THEN target = [x |-> -qx, y |-> -qz, z |-> qy, w |-> -qw]
            ELSE target = [x |-> qw, y |-> qx, z |-> qy, w |-> qz]

\* a swizzled read of a quaternion whose w, y and z differ
C10_Witness ==
    /\ coordCall.op = "getQuaternion"
    /\ coordCall.args = <<1, TRUE>>
    /\ buffer[4] = -1
    /\ buffer[5] = 2
    /\ buffer[6] = 3
    /\ buffer[7] = 2

----------------------------------------------------------------------------
(* Properties of the scene builder *)

\* the nodes added directly to parent.scene
SceneRoots == {scene[k] : k \in 1 .. Len(scene)}

\* the build has ended in the catch block after the model was loaded and
\* its names blob accepted: a pass threw
FailedInPass == pcLoad = "failed" /\ simulation # NullSim /\ mjModel.names > 0

\* C11: a build on a loaded model whose names blob is empty has failed: it
\* returned null, and no root node of that build exists or hangs from the scene
C11_EmptyNamesFailsClean ==
    (loads > 0 /\ simulation # NullSim /\ mjModel.names = 0)
        => /\ pcLoad = "failed"
           /\ retval = "null"
           /\ RootId \notin SceneRoots
           /\ RootId \notin DOMAIN nodes

C11_Witness ==
    /\ loads > 0 /\ simulation # NullSim /\ mjModel.names = 0
    /\ pcLoad = "failed" /\ retval = "null"

\* C12: when a build has failed inside one of its passes, nothing of it is
\* left: its root does not hang from the scene and no node of it is alive
C12_FailedBuildLeavesNothing ==
    FailedInPass => RootId \notin SceneRoots /\ nodes = <<>>

\* the geometries the geometry pass has gone through
Processed == IF pcLoad = "geoms" THEN 0 .. (idx - 1) ELSE 0 .. (Len(mjModel.geoms) - 1)

\* the builder is past its checks and has not failed
Building == pcLoad \in {"geoms", "lights", "bodies", "done"}

\* the renderable node made for geometry g
MeshNode(g) == ObjId("mesh", loads, g)

\* the renderable nodes alive
Renderables == {n \in DOMAIN nodes : nodes[n].kind \in {"Mesh", "Reflector"}}

\* the nodes that show a triangle mesh
BufferNodes == {n \in Renderables : nodes[n].geometry.shape = "Buffer"}

\* C14: within one build all nodes of one mesh id share one geometry object,
\* and the buffers of a mesh id are synthesized once if a processed geometry
\* shows it and never otherwise: its vertex is axis-swapped exactly once
C14_MeshSynthesizedOnce ==
    Building =>
        /\ \A n1 \in BufferNodes, n2 \in BufferNodes :
               nodes[n1].geometry.dims = nodes[n2].geometry.dims
                   => nodes[n1].geometry.id = nodes[n2].geometry.id
        /\ \A m \in DOMAIN MeshVerts :
               LET shown == \E n \in BufferNodes : nodes[n].geometry.dims[1] = m
               IN  /\ meshSynth[m] = IF shown THEN 1 ELSE 0
                   /\ mesh_vert[m] = IF shown THEN SwizzleVertex(MeshVerts[m])
                                     ELSE MeshVerts[m]

C14_Witness ==
    /\ pcLoad = "done"
    /\ \E n1 \in BufferNodes, n2 \in BufferNodes :
          /\ n1 # n2
          /\ nodes[n1].geometry.dims = nodes[n2].geometry.dims
          /\ nodes[n1].parent # nodes[n2].parent

\* the texture a geometry refers to, -1 for none
GeomTexId(geo) == IF geo.matid # -1 THEN Materials[geo.matid + 1].texid ELSE -1

\* C15: of two consecutive processed geometries the second allocates a
\* material exactly when colour, opacity or texture differ; two that refer
\* to the same texture with the same colour allocate none
C15_SameAppearanceSharesMaterial ==
    \A k \in 1 .. (Len(materialLog) - 1) :
        LET a == mjModel.geoms[materialLog[k].g + 1]
            b == mjModel.geoms[materialLog[k + 1].g + 1]
        IN  materialLog[k + 1].fresh
                = ~(GeomColor(a) = GeomColor(b) /\ GeomTexId(a) = GeomTexId(b))

\* C18: a geometry of group 3 or more has no renderable node and does not
\* make the geometry pass create its body's node; every processed geometry
\* of a group below 3 has one renderable node, a child of its body's node
C18_GroupFilter ==
    Building =>
        /\ \A g \in Processed :
              LET geo == mjModel.geoms[g + 1]
              IN  IF geo.group >= 3
                  THEN MeshNode(g) \notin DOMAIN nodes
                  ELSE /\ MeshNode(g) \in Renderables
                       /\ geo.bodyid \in DOMAIN bodies
                       /\ nodes[MeshNode(g)].parent = bodies[geo.bodyid]
                       /\ nodes[MeshNode(g)].bodyID = geo.bodyid
        /\ Cardinality(Renderables)
              = Cardinality({g \in Processed : mjModel.geoms[g + 1].group < 3})
        /\ pcLoad \in {"geoms", "lights"} =>
              DOMAIN bodies = {mjModel.geoms[g + 1].bodyid :
                                 g \in {h \in Processed : mjModel.geoms[h + 1].group < 3}}

C18_Witness ==
    /\ pcLoad = "lights"
    /\ \E g \in Processed, h \in Processed :
          /\ mjModel.geoms[g + 1].group >= 3
          /\ mjModel.geoms[h + 1].group < 3
          /\ mjModel.geoms[g + 1].bodyid \notin DOMAIN bodies

\* C21: the node of a processed geometry has, by geom_type: sphere, radius
\* size[0]; capsule, radius size[0] and length 2*size[1]; cylinder, both radii
\* size[0] and height 2*size[1]; box, extents (2*size[0], 2*size[2],
\* 2*size[1]); ellipsoid, the unit sphere scaled by (size[0], size[2],
\* size[1]); a type without a case, the sphere of radius 0.5*size[0].  Only
\* the ellipsoid is scaled.  Lengths of a geometry are in halves.
C21_GeometryBySize ==
    Building =>
        \A g \in {h \in Processed : mjModel.geoms[h + 1].group < 3} :
            LET geo == mjModel.geoms[g + 1]
                sz == geo.size
                n == nodes[MeshNode(g)]
                shape == n.geometry.shape
                dims == n.geometry.dims
            IN  /\ geo.type = 2 => (shape = "Sphere" /\ dims[1] = 2 * sz[1])
                /\ geo.type = 3 =>
                      (shape = "Capsule" /\ dims[1] = 2 * sz[1] /\ dims[2] = 4 * sz[2])
                /\ geo.type = 5 =>
                      /\ shape = "Cylinder"
                      /\ dims[1] = 2 * sz[1] /\ dims[2] = 2 * sz[1]
                      /\ dims[3] = 4 * sz[2]
                /\ geo.type = 6 =>
                      /\ shape = "Box"
                      /\ dims = <<4 * sz[1], 4 * sz[3], 4 * sz[2]>>
                /\ geo.type = 4 =>
                      /\ shape = "Sphere" /\ dims[1] = 2
                      /\ n.scale = <<sz[1], sz[3], sz[2]>>
                /\ geo.type \notin 0 .. 7 => (shape = "Sphere" /\ dims[1] = sz[1])
                /\ geo.type # 4 => n.scale = <<1, 1, 1>>

\* a finished build of a box of half sizes (1, 2, 3): extents (2, 6, 4)
C21_Witness ==
    /\ pcLoad = "done"
    /\ Len(mjModel.geoms) = 1
    /\ mjModel.geoms[1].type = 6
    /\ mjModel.geoms[1].size = <<1, 2, 3>>
    /\ MeshNode(0) \in DOMAIN nodes
    /\ nodes[MeshNode(0)].geometry.dims = <<4, 12, 8>>

\* body 0 owns a geometry of a group below 3
BodyZeroShown ==
    \E k \in 1 .. Len(mjModel.geoms) :
        mjModel.geoms[k].bodyid = 0 /\ mjModel.geoms[k].group < 3

\* C19: after a successful build every body id has a node; body 0's node is
\* a child of the root and the others are children of body 0's node, or,
\* when body 0 owns nothing to show, all are children of the root
C19_EveryBodyHasNode ==
    pcLoad = "done" =>
        \A b \in 0 .. (mjModel.nbody - 1) :
            /\ b \in DOMAIN bodies
            /\ bodies[b] \in DOMAIN nodes
            /\ nodes[bodies[b]].parent =
                  IF b = 0 \/ ~BodyZeroShown THEN RootId ELSE bodies[0]

\* the renderable nodes are those of the geometries below group 3
ShownGeoms == {g \in Processed : MeshNode(g) \in DOMAIN nodes}

\* C20 as stated: a renderable node receives shadows unless its geometry is
\* a plane
C20_PlaneReceivesNoShadow ==
    Building =>
        \A g \in ShownGeoms :
            nodes[MeshNode(g)].receiveShadow = (mjModel.geoms[g + 1].type # mjGEOM_PLANE)

\* C20: a renderable node receives shadows unless its geometry is a triangle
\* mesh; the node of a plane receives them
C20_MeshReceivesNoShadow ==
    Building =>
        \A g \in ShownGeoms :
            nodes[MeshNode(g)].receiveShadow = (mjModel.geoms[g + 1].type # mjGEOM_MESH)

C20_Witness ==
    /\ pcLoad = "done"
    /\ \E g \in ShownGeoms, h \in ShownGeoms :
          /\ mjModel.geoms[g + 1].type = mjGEOM_PLANE
          /\ nodes[MeshNode(g)].receiveShadow
          /\ mjModel.geoms[h + 1].type = mjGEOM_MESH
          /\ ~nodes[MeshNode(h)].receiveShadow

----------------------------------------------------------------------------
(* Properties of the animation frame *)

\* C13: after the tendon sync of a frame neither pool counts more active
\* instances than it has room for
C13_PoolCountsWithinCapacity ==
    /\ cylinders.count <= TendonCapacity
    /\ spheres.count <= TendonCapacity

\* the positions of the log at which an iteration of the stepping loop starts
IterStarts == {i \in 1 .. Len(log) : log[i] \in {"iter+", "iter-"}}

\* the position after the last entry of the iteration that starts at i
IterEnd(i) ==
    IF \E j \in IterStarts : j > i
    THEN CHOOSE j \in IterStarts : j > i /\ \A k \in IterStarts : k > i => j <= k
    ELSE Len(log) + 1

IsCall(e) == e \in {"update", "step"}

IsCopy(e) == e = "copy"

IsStep(e) == e = "step"

\* the update and step calls of the iteration that starts at i, in order
IterCalls(i) == SelectSeq(SubSeq(log, i + 1, IterEnd(i) - 1), IsCall)

\* the iteration that starts at i has reached the end of the loop body
IterComplete(i) ==
    \/ IterEnd(i) <= Len(log)
    \/ pcFrame \notin {"setDirection", "setSpeed", "update", "perturb", "step"}

\* C16: an iteration of the stepping loop that starts with a controller and
\* locomotion enabled calls update once and then step once; while it runs,
\* step is never ahead of update
C16_UpdateOnceBeforeStep ==
    \A i \in IterStarts :
        log[i] = "iter+" =>
            IterCalls(i) = IF IterComplete(i) THEN <<"update", "step">>
                           ELSE IF pcFrame \in {"perturb", "step"} THEN <<"update">>
                           ELSE <<>>

C16_Witness ==
    /\ pcFrame = "idle"
    /\ \E i \in IterStarts, j \in IterStarts :
          i < j /\ log[i] = "iter+" /\ log[j] = "iter+"

FrameSteps == Len(SelectSeq(log, IsStep))

\* ceil(35 / (1000 * timestep))
StepBound == (ResyncAfter + timestep - 1) \div timestep

\* C29: an unpaused frame that starts more than 35 ms behind the wall clock
\* sets the simulation clock to the wall clock; every step() advances the
\* simulation clock by the timestep and is made while that clock is behind
\* the wall clock; a frame that steps started at most 35 ms behind, and
\* runs at most ceil(35 / timestep) steps; the stepping loop is left.
C29_SteppingLoopBounded ==
    /\ [][(~params.paused /\ pcFrame = "idle" /\ pcFrame' # "idle") =>
            mujoco_time' = IF timeMS' - mujoco_time > 35 THEN timeMS'
                           ELSE mujoco_time]_vars
    /\ [][simSteps' # simSteps =>
            /\ simSteps' = simSteps + 1
            /\ mujoco_time < timeMS
            /\ mujoco_time' = mujoco_time + timestep]_vars
    /\ [](FrameSteps > 0 =>
            /\ timeMS - (mujoco_time - FrameSteps * timestep) <= 35
            /\ timeMS - (mujoco_time - FrameSteps * timestep) > 0)
    /\ [](FrameSteps <= StepBound)
    /\ (pcFrame = "while") ~> (pcFrame = "poses")

\* a frame of a scene with a 10 ms timestep that ran ceil(3.5) = 4 steps
C29_Witness ==
    /\ pcFrame = "poses"
    /\ ~params.paused
    /\ timestep = 10
    /\ FrameSteps = 4

\* the wrap points that start a pair of the tendon loops: all but the last
\* point of each tendon
PairStarts ==
    {w \in 0 .. (Len(Flatten(wraps)) - 2) : (w + 1) \notin TendonEnds(wraps, 0)}

\* the pairs with both endpoints valid
ValidPairs == {w \in PairStarts : Flatten(wraps)[w + 1] /\ Flatten(wraps)[w + 2]}

\* the valid endpoints of the pairs
ValidEndpoints ==
    {w \in 0 .. (Len(Flatten(wraps)) - 1) :
        /\ Flatten(wraps)[w + 1]
        /\ w \in PairStarts \/ (w - 1) \in PairStarts}

\* a frame of a demo with a built scene has ended with its tendon sync
TendonsSynced == pcFrame = "idle" /\ posedAt >= 0 /\ mujocoRoot # None

\* C22: after a tendon sync the capsule count is the number of pairs with
\* both endpoints valid, and every valid endpoint of a pair has its sphere
\* in a slot below the sphere count, not overwritten by another endpoint.
C22_EveryValidEndpointShown ==
    TendonsSynced =>
        /\ cylinders.count = Cardinality(ValidPairs)
        /\ \A w \in ValidEndpoints :
              \E slot \in DOMAIN spheres.written :
                  slot < spheres.count /\ spheres.written[slot] = w

\* the children of the scene named "MuJoCo Root"
NamedRoots == {k \in 1 .. Len(scene) : nodes[scene[k]].name = "MuJoCo Root"}

\* C26: the scene has at most one child named "MuJoCo Root"; when the
\* builder is entered the scene has none, the old root having been removed;
\* a step of render() leaves the children of the scene and the nodes alone.
C26_AtMostOneRoot ==
    /\ [](Cardinality(NamedRoots) <= 1)
    /\ [][loads' # loads => NamedRoots = {}]_vars
    /\ [][Frame => UNCHANGED <<scene, nodes>>]_vars

\* the third build has finished: its root is the one child of the scene
C26_Witness ==
    /\ loads = 3
    /\ pcLoad = "done"
    /\ scene = <<RootId>>
    /\ posedAt >= 0

\* C27: the locomotion controller's update() and reset() write into the
\* ctrl buffer of the simulation the demo holds.
C27_ControllerWritesCurrentSim ==
    [][((LoopUpdate \/ ResetPose) /\ loads > 1) => ctlSim = simulation]_vars

====
